---- MODULE Spec2Model ----
(***************************************************************************)
(* Model of src/src/bpe.js: the prefix trie, the max-heap priority queue   *)
(* and the BPE engine (constructor, train, tokenize).                      *)
(*                                                                         *)
(* A JavaScript string is a sequence of one-character strings.  Array      *)
(* indices keep the source's 0-based values; At/SetAt/Splice1 convert.     *)
(***************************************************************************)
EXTENDS Integers, Sequences, FiniteSets, TLC

\* ------------------------------------------------------------------------
\* Bounds
\* ------------------------------------------------------------------------
\* longest corpus of a train call in the engine-lifecycle specification
MaxCorpusLen == 3
\* longest corpus of the single-run training specification
MaxRunLen == 6
\* largest merge budget k
MaxK == 2
\* longest text handed to tokenize / longestPrefixMatch
MaxTextLen == 3
\* longest word inserted into a free-standing trie
MaxWordLen == 2
\* most words inserted into a free-standing trie
MaxWords == 2
\* most entries inserted into a free-standing heap
MaxHeapOps == 4
\* largest frequency of an entry inserted into a free-standing heap
MaxFreq == 3

\* ------------------------------------------------------------------------
\* JavaScript values
\* ------------------------------------------------------------------------
Letters == {"a", "b"}
Sentinel == "%"
Undefined == <<"undefined">>
NaN == <<"NaN">>
JsNull == <<"null">>
UndefinedText == <<"u", "n", "d", "e", "f", "i", "n", "e", "d">>
\* the value of a trie node that holds no id
Null == 0

StringsUpTo(S, n) == UNION {[1..m -> S] : m \in 0..n}

\* x + y on strings and undefined
ToText(v) == IF v = Undefined THEN UndefinedText ELSE v
JsAdd(x, y) == IF x = Undefined /\ y = Undefined THEN NaN ELSE ToText(x) \o ToText(y)

\* arr[i]
At(arr, i) == IF i >= 0 /\ i < Len(arr) THEN arr[i + 1] ELSE Undefined
\* variant: the write is lost
SetAtKeep(arr, i, v) == arr

\* arr[i] = v (a write past the end leaves holes, which read as undefined)
SetAt(arr, i, v) ==
  IF i < Len(arr) THEN [arr EXCEPT ![i + 1] = v]
  ELSE arr \o [n \in 1..(i - Len(arr)) |-> Undefined] \o <<v>>
\* variant: removes the element before index i
Splice1Left(arr, i) ==
  IF i < Len(arr) THEN SubSeq(arr, 1, i - 1) \o SubSeq(arr, i + 1, Len(arr)) ELSE arr

\* arr.splice(i, 1)
Splice1(arr, i) ==
  IF i < Len(arr) THEN SubSeq(arr, 1, i) \o SubSeq(arr, i + 2, Len(arr)) ELSE arr

\* corpus.replace(/%/g, '')
RECURSIVE StripAll(_)
StripAll(s) ==
  IF s = <<>> THEN <<>>
  ELSE IF Head(s) = Sentinel THEN StripAll(Tail(s))
  ELSE <<Head(s)>> \o StripAll(Tail(s))

\* best.replace('%', ''): only the first occurrence
RECURSIVE ReplaceFirst(_)
ReplaceFirst(s) ==
  IF s = <<>> THEN <<>>
  ELSE IF Head(s) = Sentinel THEN Tail(s)
  ELSE <<Head(s)>> \o ReplaceFirst(Tail(s))

\* str.split('')
Split(s) == [n \in 1..Len(s) |-> <<s[n]>>]

RECURSIVE Concat(_)
Concat(seq) == IF seq = <<>> THEN <<>> ELSE Head(seq) \o Concat(Tail(seq))

IsPrefix(p, s) == Len(p) <= Len(s) /\ SubSeq(s, 1, Len(p)) = p

\* ------------------------------------------------------------------------
\* Trie: a node is identified by the path of characters from the root
\* ------------------------------------------------------------------------
TrieNode == [isEndOfWord |-> FALSE, value |-> Null]
NewTrie == (<<>> :> TrieNode)

RECURSIVE InsertWalk(_, _, _, _)
InsertWalk(t, word, n, value) ==
  IF n = Len(word)
  THEN [t EXCEPT ![word] = [isEndOfWord |-> TRUE, value |-> value]]
  ELSE LET child == SubSeq(word, 1, n + 1)
       IN InsertWalk(IF child \in DOMAIN t THEN t ELSE t @@ (child :> TrieNode),
                     word, n + 1, value)

\* variant: a terminus that exists keeps its value
TrieInsertKeep(t, word, value) ==
  IF word \in DOMAIN t /\ t[word].isEndOfWord THEN t
  ELSE InsertWalk(t, word, 0, value)

TrieInsert(t, word, value) == InsertWalk(t, word, 0, value)

\* variant: stops at the first terminus
RECURSIVE MatchWalkFirst(_, _, _, _)
MatchWalkFirst(t, word, n, lastMatch) ==
  IF n = Len(word) THEN lastMatch
  ELSE LET child == SubSeq(word, 1, n + 1)
       IN IF child \notin DOMAIN t THEN lastMatch
          ELSE IF t[child].isEndOfWord THEN child
          ELSE MatchWalkFirst(t, word, n + 1, lastMatch)

\* variant: records every node walked, terminus or not
RECURSIVE MatchWalkPath(_, _, _, _)
MatchWalkPath(t, word, n, lastMatch) ==
  IF n = Len(word) THEN lastMatch
  ELSE LET child == SubSeq(word, 1, n + 1)
       IN IF child \notin DOMAIN t THEN lastMatch
          ELSE MatchWalkPath(t, word, n + 1, child)

\* the loop of longestPrefixMatch; SubSeq(word, 1, n) is currentPrefix
RECURSIVE MatchWalk(_, _, _, _)
MatchWalk(t, word, n, lastMatch) ==
  IF n = Len(word) THEN lastMatch
  ELSE LET child == SubSeq(word, 1, n + 1)
       IN IF child \notin DOMAIN t THEN lastMatch
          ELSE MatchWalk(t, word, n + 1,
                         IF t[child].isEndOfWord THEN child ELSE lastMatch)

\* variant: the shortest match
FirstPrefixMatch(t, word) == MatchWalkFirst(t, word, 0, JsNull)

longestPrefixMatch(t, word) == MatchWalk(t, word, 0, JsNull)

\* the words at which the trie has a complete-token terminus
TrieWords(t) == {p \in DOMAIN t : t[p].isEndOfWord}

\* ------------------------------------------------------------------------
\* MaxHeap: a sequence of <<priority, payload>> entries
\* ------------------------------------------------------------------------
Swap(h, a, b) == [h EXCEPT ![a + 1] = h[b + 1], ![b + 1] = h[a + 1]]

\* variant: no sifting
bubbleUpNone(h, index) == h

RECURSIVE bubbleUp(_, _)
bubbleUp(h, index) ==
  IF index > 0
  THEN LET parentIndex == (index - 1) \div 2
       IN IF h[parentIndex + 1][1] >= h[index + 1][1] THEN h
          ELSE bubbleUp(Swap(h, parentIndex, index), parentIndex)
  ELSE h

\* variant: looks at the left child only
RECURSIVE bubbleDownLeft(_, _)
bubbleDownLeft(h, index) ==
  LET leftChild == 2 * index + 1
  IN IF leftChild < Len(h) /\ h[leftChild + 1][1] > h[index + 1][1]
     THEN bubbleDownLeft(Swap(h, index, leftChild), leftChild)
     ELSE h

RECURSIVE bubbleDown(_, _)
bubbleDown(h, index) ==
  LET leftChild == 2 * index + 1
      rightChild == 2 * index + 2
      l1 == IF leftChild < Len(h) /\ h[leftChild + 1][1] > h[index + 1][1]
            THEN leftChild ELSE index
      largest == IF rightChild < Len(h) /\ h[rightChild + 1][1] > h[l1 + 1][1]
                 THEN rightChild ELSE l1
  IN IF largest = index THEN h
     ELSE bubbleDown(Swap(h, index, largest), largest)

isEmpty(h) == Len(h) = 0

HeapInsert(h, item) == bubbleUp(Append(h, item), Len(h))

\* extractMax: on an empty heap it throws and the heap is as it was; otherwise
\* the entry returned and the heap left
extractMax(h) ==
  IF isEmpty(h)
  THEN [threw |-> TRUE, max |-> <<0, <<>>>>, heap |-> h]
  ELSE LET max == h[1]
           last == h[Len(h)]
           popped == SubSeq(h, 1, Len(h) - 1)
       IN [threw |-> FALSE,
           max |-> max,
           heap |-> IF Len(popped) > 0
                    THEN bubbleDown([popped EXCEPT ![1] = last], 0)
                    ELSE popped]

\* ------------------------------------------------------------------------
\* Vocabulary (this.model): a function from token text to id
\* ------------------------------------------------------------------------
EmptyModel == [t \in {} |-> 0]

\* Object.keys(m).length
KeysLength(m) == Cardinality(DOMAIN m)

\* m[key] = v
ModelSet(m, key, v) == [t \in DOMAIN m \cup {key} |-> IF t = key THEN v ELSE m[t]]

\* the vocabulary store (the file model_name)
StoreAbsent == [exists |-> FALSE, content |-> EmptyModel]
SeedVocabulary == (<<"a", "a">> :> 1) @@ (<<"a">> :> 2)
InitialStores == {StoreAbsent, [exists |-> TRUE, content |-> SeedVocabulary]}

\* _load_vocabulary
LoadVocabulary(st) == IF st.exists THEN st.content ELSE EmptyModel

\* the constructor's loop over Object.entries(this.model)
RECURSIVE BuildTrie(_, _, _)
BuildTrie(t, m, keys) ==
  IF keys = {} THEN t
  ELSE LET key == CHOOSE x \in keys : TRUE
       IN BuildTrie(TrieInsert(t, key, m[key]), m, keys \ {key})

\* ------------------------------------------------------------------------
\* pairFreqs: the entries <<pair, count>> in insertion order
\* ------------------------------------------------------------------------
PfHas(pf, key) == \E n \in 1..Len(pf) : pf[n][1] = key
PfIndex(pf, key) == CHOOSE n \in 1..Len(pf) : pf[n][1] = key
\* pairFreqs[key] || 0
PfGet(pf, key) == IF PfHas(pf, key) THEN pf[PfIndex(pf, key)][2] ELSE 0
\* pairFreqs[key] = (pairFreqs[key] || 0) + 1
PfInc(pf, key) ==
  IF PfHas(pf, key)
  THEN [pf EXCEPT ![PfIndex(pf, key)] = <<key, PfGet(pf, key) + 1>>]
  ELSE Append(pf, <<key, 1>>)

\* the counting loop of train: for (let i = 0; i < tokens.length - 1; i++)
RECURSIVE CountPairs(_, _, _, _)
CountPairs(toks, n, pf, tp) ==
  IF n < Len(toks) - 1
  THEN LET pair == JsAdd(At(toks, n), At(toks, n + 1))
       IN CountPairs(toks, n + 1, PfInc(pf, pair), Append(tp, <<n, n + 1>>))
  ELSE [pairFreqs |-> pf, tokenPairs |-> tp]

\* variant: the entries carry the count itself
RECURSIVE SeedHeapPlain(_, _, _)
SeedHeapPlain(pf, n, h) ==
  IF n > Len(pf) THEN h
  ELSE SeedHeapPlain(pf, n + 1, HeapInsert(h, <<pf[n][2], pf[n][1]>>))

\* the seeding loop of train: heap.insert([-freq, pair]) per entry
RECURSIVE SeedHeap(_, _, _)
SeedHeap(pf, n, h) ==
  IF n > Len(pf) THEN h
  ELSE SeedHeap(pf, n + 1, HeapInsert(h, <<-pf[n][2], pf[n][1]>>))

\* variant: the size itself
NextIdSize(m) == KeysLength(m)

\* the id given to a new token: Object.keys(this.model).length + 1
NextId(m) == KeysLength(m) + 1

\* one iteration of the rescan loop: the body for index j
ScanBody(toks, tp, jj, tok, pf, h, ntp) ==
  LET left == tp[jj + 1][1]
      right == tp[jj + 1][2]
  IN IF JsAdd(At(toks, left), At(toks, right)) = tok
     THEN LET t1 == Splice1(SetAt(toks, left, tok), right)
              hasPrev == jj > 0
              prevPair == JsAdd(At(t1, tp[jj][1]), At(t1, left))
              pf1 == IF hasPrev THEN PfInc(pf, prevPair) ELSE pf
              h1 == IF hasPrev THEN HeapInsert(h, <<-PfGet(pf1, prevPair), prevPair>>) ELSE h
              ntp1 == IF hasPrev THEN Append(ntp, <<tp[jj][1], left>>) ELSE ntp
              hasNext == jj < Len(tp) - 1
              nextPair == JsAdd(At(t1, left), At(t1, tp[jj + 2][2]))
              pf2 == IF hasNext THEN PfInc(pf1, nextPair) ELSE pf1
              h2 == IF hasNext THEN HeapInsert(h1, <<-PfGet(pf2, nextPair), nextPair>>) ELSE h1
              ntp2 == IF hasNext THEN Append(ntp1, <<left, tp[jj + 2][2]>>) ELSE ntp1
          IN [fused |-> TRUE, tokens |-> t1, pairFreqs |-> pf2, heap |-> h2,
              newTokenPairs |-> ntp2]
     ELSE [fused |-> FALSE, tokens |-> toks, pairFreqs |-> pf, heap |-> h,
           newTokenPairs |-> Append(ntp, <<left, right>>)]

\* ------------------------------------------------------------------------
\* tokenize
\* ------------------------------------------------------------------------
\* if (longestMatch): null and '' are falsy
Truthy(m) == m # JsNull /\ m # <<>>

\* variant: advances one position too far after a match
RECURSIVE TokenizeFromSkip(_, _, _, _)
TokenizeFromSkip(t, data, n, out) ==
  IF n < Len(data)
  THEN LET longestMatch == longestPrefixMatch(t, SubSeq(data, n + 1, Len(data)))
       IN IF Truthy(longestMatch)
          THEN TokenizeFromSkip(t, data, n + Len(longestMatch) + 1, Append(out, longestMatch))
          ELSE TokenizeFromSkip(t, data, n + 1, Append(out, <<data[n + 1]>>))
  ELSE out

\* the while loop of tokenize from position n
RECURSIVE TokenizeFrom(_, _, _, _)
TokenizeFrom(t, data, n, out) ==
  IF n < Len(data)
  THEN LET longestMatch == longestPrefixMatch(t, SubSeq(data, n + 1, Len(data)))
       IN IF Truthy(longestMatch)
          THEN TokenizeFrom(t, data, n + Len(longestMatch), Append(out, longestMatch))
          ELSE TokenizeFrom(t, data, n + 1, Append(out, <<data[n + 1]>>))
  ELSE out

tokenize(t, data) == TokenizeFrom(t, data, 0, <<>>)

\* ------------------------------------------------------------------------
\* State
\* ------------------------------------------------------------------------
VARIABLES
  model,          \* this.model, the Vocabulary
  trie,           \* this.trie
  trained,        \* this.trained
  store,          \* the vocabulary store read by the constructor, written by train
  pc,             \* the position of the running call, "idle" between calls
  corpus, save, k,                    \* train's arguments
  tokens, pairFreqs, tokenPairs,      \* train's locals
  newTokenPairs, heap, i, j,
  negFreq, best, freq, newToken,
  modelBefore,    \* this.model at the entry of the running train call
  trieBefore,     \* this.trie at the entry of the running train call
  assigned,       \* the ids assigned by the running train call, in order
  preTokens,      \* tokens at the start of the current rescan
  fusions,        \* the fusions performed by the current rescan
  writes,         \* the writes of the store made by the running train call
  tokText,        \* the argument of the last tokenize call
  tokOut,         \* the tokens it returned
  inserted,       \* free-standing heap or trie: the entries inserted so far
  extracted,      \* free-standing heap: the entries extracted so far
  lookupText,     \* free-standing trie: the argument of the last longestPrefixMatch
  lookupResult    \* free-standing trie: its result

engineVars == <<model, trie, trained, store>>
argVars == <<corpus, save, k>>
localVars == <<tokens, pairFreqs, tokenPairs, newTokenPairs, heap, i, j, negFreq, best, freq, newToken>>
runVars == <<modelBefore, trieBefore, assigned, preTokens, fusions, writes>>
tokVars == <<tokText, tokOut>>
unitVars == <<inserted, extracted, lookupText, lookupResult>>
vars == <<engineVars, pc, argVars, localVars, runVars, tokVars, unitVars>>

\* the values train's arguments and locals hold while no train call runs
NoRun ==
  /\ corpus = <<>> /\ save = FALSE /\ k = 0
  /\ tokens = <<>> /\ pairFreqs = <<>> /\ tokenPairs = <<>> /\ newTokenPairs = <<>>
  /\ heap = <<>> /\ i = 0 /\ j = 0
  /\ negFreq = 0 /\ best = <<>> /\ freq = 0 /\ newToken = <<>>
  /\ modelBefore = EmptyModel /\ trieBefore = NewTrie /\ assigned = <<>>
  /\ preTokens = <<>> /\ fusions = 0 /\ writes = 0

NoTokenize == tokText = <<>> /\ tokOut = <<>>

NoUnit == inserted = <<>> /\ extracted = <<>> /\ lookupText = <<>> /\ lookupResult = JsNull

\* new BPE(model_name): the store is absent or holds a vocabulary
Init ==
  /\ store \in InitialStores
  /\ trained = store.exists
  /\ model = LoadVocabulary(store)
  /\ trie = BuildTrie(NewTrie, model, DOMAIN model)
  /\ pc = "idle"
  /\ NoRun /\ NoTokenize /\ NoUnit

\* ------------------------------------------------------------------------
\* train(corpus, save, k)
\* ------------------------------------------------------------------------
\* variant: writes the store before it tests the corpus
TrainThrowSaving(c, s, kk) ==
  /\ pc = "idle"
  /\ corpus' = c /\ save' = s /\ k' = kk
  /\ store' = IF s THEN [exists |-> TRUE, content |-> model] ELSE store
  /\ pc' = "threw"
  /\ UNCHANGED <<model, trie, trained, localVars, runVars, tokVars, unitVars>>

\* a corpus that is not a string: throw before anything else
TrainThrow(c, s, kk) ==
  /\ pc = "idle"
  /\ corpus' = c /\ save' = s /\ k' = kk
  /\ pc' = "threw"
  /\ UNCHANGED <<engineVars, localVars, runVars, tokVars, unitVars>>

\* the caller catches the error; the engine can be called again
ThrowCaught ==
  /\ pc = "threw"
  /\ pc' = "idle"
  /\ corpus' = <<>> /\ save' = FALSE /\ k' = 0
  /\ UNCHANGED <<engineVars, localVars, runVars, tokVars, unitVars>>

\* entry up to the seeded heap
TrainStart(c, s, kk) ==
  /\ pc = "idle"
  /\ corpus' = c /\ save' = s /\ k' = kk
  /\ LET toks == Split(StripAll(c))
         counted == CountPairs(toks, 0, <<>>, <<>>)
     IN /\ tokens' = toks
        /\ pairFreqs' = counted.pairFreqs
        /\ tokenPairs' = counted.tokenPairs
        /\ heap' = SeedHeap(counted.pairFreqs, 1, <<>>)
  /\ i' = 0
  /\ modelBefore' = model /\ trieBefore' = trie
  /\ assigned' = <<>>
  /\ writes' = 0
  /\ pc' = "loop"
  /\ UNCHANGED <<engineVars, newTokenPairs, j, negFreq, best, freq, newToken,
                 preTokens, fusions, tokVars, unitVars>>

\* variant: the loop never tests the heap
HeapExhaustedNever(h) == FALSE

\* if (heap.isEmpty()) break
HeapExhausted(h) == isEmpty(h)

\* the loop test, the emptiness test and the pop; an error thrown by
\* extractMax leaves train at once
TrainLoop ==
  /\ pc = "loop"
  /\ IF i < k /\ ~HeapExhausted(heap)
     THEN LET r == extractMax(heap)
          IN IF r.threw
             THEN /\ pc' = "failed"
                  /\ UNCHANGED <<negFreq, best, freq, heap>>
             ELSE /\ negFreq' = r.max[1]
                  /\ best' = r.max[2]
                  /\ freq' = -r.max[1]
                  /\ heap' = r.heap
                  /\ pc' = "popped"
     ELSE /\ pc' = "save"
          /\ UNCHANGED <<negFreq, best, freq, heap>>
  /\ UNCHANGED <<engineVars, argVars, tokens, pairFreqs, tokenPairs,
                 newTokenPairs, i, j, newToken, runVars, tokVars, unitVars>>

\* variant: merges whatever the popped frequency
TrainCheckAlways ==
  /\ pc = "popped"
  /\ LET tok == ReplaceFirst(best)
         id == NextId(model)
     IN /\ newToken' = tok
        /\ model' = ModelSet(model, tok, id)
        /\ trie' = TrieInsert(trie, tok, id)
        /\ assigned' = Append(assigned, id)
  /\ newTokenPairs' = <<>>
  /\ j' = 0
  /\ preTokens' = tokens
  /\ fusions' = 0
  /\ pc' = "scan"
  /\ UNCHANGED <<trained, store, argVars, tokens, pairFreqs, tokenPairs,
                 heap, i, negFreq, best, freq, modelBefore, trieBefore, writes, tokVars, unitVars>>

\* the frequency test, the new token's id and its trie entry
TrainCheck ==
  /\ pc = "popped"
  /\ IF freq = 1
     THEN /\ pc' = "save"
          /\ UNCHANGED <<model, trie, newToken, newTokenPairs, j, assigned, preTokens, fusions>>
     ELSE /\ LET tok == ReplaceFirst(best)
                 id == NextId(model)
             IN /\ newToken' = tok
                /\ model' = ModelSet(model, tok, id)
                /\ trie' = TrieInsert(trie, tok, id)
                /\ assigned' = Append(assigned, id)
          /\ newTokenPairs' = <<>>
          /\ j' = 0
          /\ preTokens' = tokens
          /\ fusions' = 0
          /\ pc' = "scan"
  /\ UNCHANGED <<trained, store, argVars, tokens, pairFreqs, tokenPairs,
                 heap, i, negFreq, best, freq, modelBefore, trieBefore, writes, tokVars, unitVars>>

\* one iteration of the rescan loop
TrainScan ==
  /\ pc = "scan"
  /\ j < Len(tokenPairs)
  /\ LET r == ScanBody(tokens, tokenPairs, j, newToken, pairFreqs, heap, newTokenPairs)
     IN /\ tokens' = r.tokens
        /\ pairFreqs' = r.pairFreqs
        /\ heap' = r.heap
        /\ newTokenPairs' = r.newTokenPairs
        /\ fusions' = IF r.fused THEN fusions + 1 ELSE fusions
  /\ j' = j + 1
  /\ UNCHANGED <<engineVars, pc, argVars, tokenPairs, i, negFreq, best, freq,
                 newToken, modelBefore, trieBefore, assigned, preTokens, writes, tokVars, unitVars>>

\* the end of the rescan: tokenPairs is replaced and the next iteration begins
TrainRebuild ==
  /\ pc = "scan"
  /\ j >= Len(tokenPairs)
  /\ tokenPairs' = newTokenPairs
  /\ i' = i + 1
  /\ pc' = "loop"
  /\ UNCHANGED <<engineVars, argVars, tokens, pairFreqs, newTokenPairs, heap, j,
                 negFreq, best, freq, newToken, runVars, tokVars, unitVars>>

\* variant: writes the store whatever the save argument
TrainSaveAlways ==
  /\ pc = "save"
  /\ store' = [exists |-> TRUE, content |-> model]
  /\ writes' = writes + 1
  /\ pc' = "done"
  /\ UNCHANGED <<model, trie, trained, argVars, localVars, modelBefore, trieBefore,
                 assigned, preTokens, fusions, tokVars, unitVars>>

\* if (save) writeFileSync(...)
TrainSave ==
  /\ pc = "save"
  /\ store' = IF save THEN [exists |-> TRUE, content |-> model] ELSE store
  /\ writes' = IF save THEN writes + 1 ELSE writes
  /\ pc' = "done"
  /\ UNCHANGED <<model, trie, trained, argVars, localVars, modelBefore, trieBefore,
                 assigned, preTokens, fusions, tokVars, unitVars>>

\* return this.model: the call's arguments and locals go out of scope
TrainReturn ==
  /\ pc = "done"
  /\ pc' = "idle"
  /\ corpus' = <<>> /\ save' = FALSE /\ k' = 0
  /\ tokens' = <<>> /\ pairFreqs' = <<>> /\ tokenPairs' = <<>> /\ newTokenPairs' = <<>>
  /\ heap' = <<>> /\ i' = 0 /\ j' = 0
  /\ negFreq' = 0 /\ best' = <<>> /\ freq' = 0 /\ newToken' = <<>>
  /\ modelBefore' = EmptyModel /\ trieBefore' = NewTrie /\ assigned' = <<>>
  /\ preTokens' = <<>> /\ fusions' = 0 /\ writes' = 0
  /\ UNCHANGED <<engineVars, tokVars, unitVars>>

\* ------------------------------------------------------------------------
\* tokenize(data)
\* ------------------------------------------------------------------------
Tokenize(data) ==
  /\ pc \in {"idle", "tokenized"}
  /\ tokText' = data
  /\ tokOut' = tokenize(trie, data)
  /\ pc' = "tokenized"
  /\ UNCHANGED <<engineVars, argVars, localVars, runVars, unitVars>>

\* return tokens: the caller is done with the returned tokens
TokenizeReturn ==
  /\ pc = "tokenized"
  /\ pc' = "idle"
  /\ tokText' = <<>> /\ tokOut' = <<>>
  /\ UNCHANGED <<engineVars, argVars, localVars, runVars, unitVars>>

\* ------------------------------------------------------------------------
\* The engine's life: train and tokenize calls in any order
\* ------------------------------------------------------------------------
Alphabet == Letters \cup {Sentinel}

\* values of typeof other than 'string': undefined, null, NaN
NonStrings == {Undefined, JsNull, NaN}

TrainThrowCall ==
  /\ pc = "idle"
  /\ \E c \in NonStrings, s \in BOOLEAN, kk \in 0..MaxK : TrainThrow(c, s, kk)

TrainCall ==
  /\ pc = "idle"
  /\ \E c \in StringsUpTo(Alphabet, MaxCorpusLen), s \in BOOLEAN, kk \in 0..MaxK :
       TrainStart(c, s, kk)

TokenizeCall ==
  /\ pc \in {"idle", "tokenized"}
  /\ \E data \in StringsUpTo(Letters, MaxTextLen) : Tokenize(data)

Next ==
  \/ TrainThrowCall
  \/ ThrowCaught
  \/ TrainCall
  \/ TrainLoop
  \/ TrainCheck
  \/ TrainScan
  \/ TrainRebuild
  \/ TrainSave
  \/ TrainReturn
  \/ TokenizeCall
  \/ TokenizeReturn

Spec == Init /\ [][Next]_vars

\* ------------------------------------------------------------------------
\* One train call on a newly constructed engine, followed to its return
\* ------------------------------------------------------------------------
TrainRun ==
  /\ pc = "idle"
  /\ \E c \in StringsUpTo(Alphabet, MaxRunLen), s \in BOOLEAN, kk \in 0..MaxK :
       TrainStart(c, s, kk)

NextRun ==
  \/ TrainRun
  \/ TrainLoop
  \/ TrainCheck
  \/ TrainScan
  \/ TrainRebuild
  \/ TrainSave

SpecRun == Init /\ [][NextRun]_vars

\* ------------------------------------------------------------------------
\* A free-standing MaxHeap: inserts, then extractMax until it is empty
\* ------------------------------------------------------------------------
HeapItems == {<<-f, <<c>>>> : f \in 1..MaxFreq, c \in Letters}

NoEngine ==
  /\ model = EmptyModel /\ trie = NewTrie /\ trained = FALSE /\ store = StoreAbsent

\* new MaxHeap()
InitHeap ==
  /\ NoEngine /\ NoRun /\ NoTokenize /\ NoUnit
  /\ pc = "inserting"

HeapInsertCall ==
  /\ pc = "inserting"
  /\ Len(inserted) < MaxHeapOps
  /\ \E item \in HeapItems :
       /\ heap' = HeapInsert(heap, item)
       /\ inserted' = Append(inserted, item)
  /\ UNCHANGED <<engineVars, pc, argVars, tokens, pairFreqs, tokenPairs,
                 newTokenPairs, i, j, negFreq, best, freq, newToken, runVars, tokVars,
                 extracted, lookupText, lookupResult>>

HeapExtractCall ==
  /\ pc \in {"inserting", "extracting"}
  /\ ~isEmpty(heap)
  /\ LET r == extractMax(heap)
     IN /\ heap' = r.heap
        /\ extracted' = Append(extracted, r.max)
  /\ pc' = "extracting"
  /\ UNCHANGED <<engineVars, argVars, tokens, pairFreqs, tokenPairs,
                 newTokenPairs, i, j, negFreq, best, freq, newToken, runVars, tokVars,
                 inserted, lookupText, lookupResult>>

NextHeap ==
  \/ HeapInsertCall
  \/ HeapExtractCall

SpecHeap == InitHeap /\ [][NextHeap]_vars

\* ------------------------------------------------------------------------
\* A MaxHeap in use: free-standing with insert and extractMax calls in any
\* order, or inside a train call
\* ------------------------------------------------------------------------
QueuePositions == {"queue", "extracted", "refilled", "reextracted", "heapError"}

\* new MaxHeap()
InitQueue ==
  /\ NoEngine /\ NoRun /\ NoTokenize /\ NoUnit
  /\ pc = "queue"

\* insert(item); "refilled" once an extractMax call came before
QueueInsert ==
  /\ pc \in QueuePositions
  /\ Len(heap) < MaxHeapOps
  /\ \E item \in HeapItems : heap' = HeapInsert(heap, item)
  /\ pc' = IF pc = "queue" THEN "queue" ELSE "refilled"
  /\ UNCHANGED <<engineVars, argVars, tokens, pairFreqs, tokenPairs,
                 newTokenPairs, i, j, negFreq, best, freq, newToken, runVars, tokVars,
                 unitVars>>

\* extractMax(), also on an empty heap; extracted holds the entry returned;
\* "reextracted" once an insert call came between two extractMax calls
QueueExtract ==
  /\ pc \in QueuePositions
  /\ LET r == extractMax(heap)
     IN /\ heap' = r.heap
        /\ extracted' = IF r.threw THEN extracted ELSE <<r.max>>
        /\ pc' = IF r.threw THEN "heapError"
                 ELSE IF pc \in {"refilled", "reextracted"} THEN "reextracted"
                 ELSE "extracted"
  /\ UNCHANGED <<engineVars, argVars, tokens, pairFreqs, tokenPairs,
                 newTokenPairs, i, j, negFreq, best, freq, newToken, runVars, tokVars,
                 inserted, lookupText, lookupResult>>

NextQueue ==
  \/ QueueInsert
  \/ QueueExtract
  \/ NextRun

SpecQueue == (Init \/ InitQueue) /\ [][NextQueue]_vars

\* ------------------------------------------------------------------------
\* A free-standing Trie: inserts and longestPrefixMatch calls in any order
\* ------------------------------------------------------------------------
TrieWordInputs == StringsUpTo(Letters, MaxWordLen) \ {<<>>}
TrieValueInputs == {1, 2}

\* new Trie()
InitTrie ==
  /\ NoEngine /\ NoRun /\ NoTokenize
  /\ inserted = {} /\ extracted = <<>> /\ lookupText = <<>> /\ lookupResult = JsNull
  /\ pc = "trie"

TrieInsertCall ==
  /\ pc = "trie"
  /\ \E w \in TrieWordInputs, v \in TrieValueInputs :
       /\ Cardinality(inserted \cup {w}) <= MaxWords
       /\ trie' = TrieInsert(trie, w, v)
       /\ inserted' = inserted \cup {w}
  /\ pc' = "trie"
  /\ UNCHANGED <<model, trained, store, argVars, localVars, runVars, tokVars,
                 extracted, lookupText, lookupResult>>

TrieMatchCall ==
  /\ pc \in {"trie", "matched"}
  /\ \E text \in StringsUpTo(Letters, MaxTextLen) :
       /\ lookupText' = text
       /\ lookupResult' = longestPrefixMatch(trie, text)
  /\ pc' = "matched"
  /\ UNCHANGED <<engineVars, argVars, localVars, runVars, tokVars,
                 inserted, extracted>>

\* return lastMatch: the caller is done with the result
TrieMatchReturn ==
  /\ pc = "matched"
  /\ pc' = "trie"
  /\ lookupText' = <<>> /\ lookupResult' = JsNull
  /\ UNCHANGED <<engineVars, argVars, localVars, runVars, tokVars,
                 inserted, extracted>>

NextTrie ==
  \/ TrieInsertCall
  \/ TrieMatchCall
  \/ TrieMatchReturn

SpecTrie == InitTrie /\ [][NextTrie]_vars

\* ------------------------------------------------------------------------
\* Properties
\* ------------------------------------------------------------------------
aa == <<"a", "a">>

\* C1: every entry popped in train has a true frequency (the negation of its
\* stored priority) at least that of every entry left in the queue, i.e. pairs
\* are taken in descending order of frequency.
C1_PopsHighestFrequency ==
  pc = "popped" => \A n \in 1..Len(heap) : freq >= -heap[n][1]

\* C2: the concatenation of the tokens tokenize returns is its input, for every
\* input (the empty string included) and every trie the engine can hold.
C2_TokenizeExact ==
  pc = "tokenized" =>
    /\ Concat(tokOut) = tokText
    /\ (tokText = <<>> => tokOut = <<>>)

\* C2 witness: a trained trie split a text into a merged token and a single character
C2_Witness ==
  /\ pc = "tokenized"
  /\ ~trained
  /\ tokText = <<"b", "a", "a">>
  /\ tokOut = <<<<"b">>, aa>>

\* C3: a token that has an id keeps that id over every step of every train call.
C3_IdsNeverChange ==
  [][\A t \in DOMAIN model : t \in DOMAIN model' /\ model'[t] = model[t]]_vars

\* C4: starting from an empty Vocabulary (no store was loaded), no two token
\* texts share an id and every id is at least 1.
C4_IdsUniquePositive ==
  ~trained =>
    \A t, u \in DOMAIN model : model[t] >= 1 /\ (t # u => model[t] # model[u])

\* C5: a train call assigns at most k ids, and the m-th id it assigns is greater
\* than the Vocabulary size at entry plus the m - 1 merges already performed.
C5_GrowthBound ==
  /\ Len(assigned) <= k
  /\ \A m \in 1..Len(assigned) : assigned[m] > KeysLength(modelBefore) + (m - 1)

\* C5 witness: a finished run that assigned an id to a token the Vocabulary already held
C5_Witness ==
  /\ pc = "done"
  /\ Len(assigned) = 1
  /\ newToken \in DOMAIN modelBefore
  /\ KeysLength(modelBefore) >= 2

\* the pre-step sequence with every occurrence of t, left to right without overlap, fused
RECURSIVE FuseAll(_, _)
FuseAll(seq, t) ==
  IF Len(seq) < 2 THEN seq
  ELSE IF seq[1] \o seq[2] = t THEN <<t>> \o FuseAll(SubSeq(seq, 3, Len(seq)), t)
  ELSE <<seq[1]>> \o FuseAll(Tail(seq), t)

RescanDone == pc = "scan" /\ j >= Len(tokenPairs)

\* C6: when a rescan for new token t ends, tokens is the pre-step sequence with
\* every adjacent pair that concatenates to t fused, left to right without
\* overlap, and is shorter by the number of fusions; corpus "aaa" on an empty
\* Vocabulary gives {"aa": 1} and [aa, a].
C6_MergeStep ==
  RescanDone =>
    /\ tokens = FuseAll(preTokens, newToken)
    /\ Len(tokens) = Len(preTokens) - fusions
    /\ (corpus = <<"a", "a", "a">> /\ modelBefore = EmptyModel =>
          model = (aa :> 1) /\ tokens = <<aa, <<"a">>>>)

\* C6 witness: a rescan that fused twice, the second time after a non-matching pair
C6_Witness ==
  /\ RescanDone
  /\ fusions = 2
  /\ preTokens = <<<<"a">>, <<"a">>, <<"a">>, <<"a">>, <<"a">>>>
  /\ tokens = <<aa, aa, <<"a">>>>

FirstPopIsOne == i = 0 /\ freq = 1

\* C7: when the first entry popped has true frequency 1 the loop ends at once,
\* and the Vocabulary, the trie and the token sequence are as at entry.
C7_EarlyStop ==
  /\ [](pc \in {"popped", "save", "done"} /\ FirstPopIsOne =>
          /\ model = modelBefore
          /\ trie = trieBefore
          /\ tokens = Split(StripAll(corpus))
          /\ assigned = <<>>)
  /\ [][pc = "popped" /\ FirstPopIsOne => pc' = "save"]_vars

\* C7 witness: corpus "aabb", whose pairs aa, ab, bb occur once each, with k >= 1
C7_Witness ==
  /\ pc = "done"
  /\ FirstPopIsOne
  /\ k >= 1
  /\ corpus = <<"a", "a", "b", "b">>

Count(seq, x) == Cardinality({n \in 1..Len(seq) : seq[n] = x})

\* C8: after inserts followed by extractMax calls the extracted priorities are
\* non-increasing, no entry is lost or duplicated, and once the heap is empty
\* the extracted entries are the inserted entries as a multiset.
C8_HeapOrder ==
  /\ \A n \in 1..(Len(extracted) - 1) : extracted[n][1] >= extracted[n + 1][1]
  /\ \A x \in HeapItems : Count(extracted, x) + Count(heap, x) = Count(inserted, x)
  /\ (isEmpty(heap) => Len(extracted) = Len(inserted))

\* C8 witness: entries inserted in ascending priority came out in descending priority
C8_Witness ==
  /\ pc = "extracting"
  /\ isEmpty(heap)
  /\ Len(extracted) = 3
  /\ inserted[1][1] < inserted[2][1] /\ inserted[2][1] < inserted[3][1]
  /\ extracted[1][1] > extracted[2][1] /\ extracted[2][1] > extracted[3][1]

\* the longest of the words that is a prefix of text, or null when none is
LongestPrefixOf(words, text) ==
  LET cands == {w \in words : IsPrefix(w, text)}
  IN IF cands = {} THEN JsNull
     ELSE CHOOSE w \in cands : \A u \in cands : Len(u) <= Len(w)

RECURSIVE GreedyTokens(_, _)
GreedyTokens(words, text) ==
  IF text = <<>> THEN <<>>
  ELSE LET m == LongestPrefixOf(words, text)
           tok == IF m = JsNull THEN <<text[1]>> ELSE m
       IN <<tok>> \o GreedyTokens(words, SubSeq(text, Len(tok) + 1, Len(text)))

\* C10: a tokenize call returns the greedy longest-match segmentation of its
\* text, leaves the Vocabulary and the trie as they were, and returns what the
\* previous call returned when that call had the same text.
C10_GreedyTokenize ==
  [][pc' = "tokenized" =>
       /\ tokOut' = GreedyTokens(TrieWords(trie), tokText')
       /\ model' = model
       /\ trie' = trie
       /\ (pc = "tokenized" /\ tokText' = tokText => tokOut' = tokOut)]_vars

\* C10 witness: the trie built from {"aa": 1, "a": 2} splits "aaa" into [aa, a]
C10_Witness ==
  /\ pc = "tokenized"
  /\ model = SeedVocabulary
  /\ tokText = <<"a", "a", "a">>
  /\ tokOut = <<aa, <<"a">>>>

\* C11: a train call whose corpus is not a string ends in the error, and the
\* step that raises it leaves the Vocabulary, the trie, the trained flag and
\* the store as they were, whether or not persist was requested.
C11_ThrowLeavesState ==
  /\ [](corpus \in NonStrings => pc = "threw")
  /\ [][pc' = "threw" =>
         /\ model' = model
         /\ trie' = trie
         /\ trained' = trained
         /\ store' = store]_vars

\* C11 witness: train(undefined, true) on an engine without a store has thrown
C11_Witness ==
  /\ pc = "threw"
  /\ corpus = Undefined
  /\ save
  /\ store = StoreAbsent
  /\ model # EmptyModel

InTrainBody == pc \in {"loop", "popped", "scan", "save"}

\* C12: a train call does not write the store before its merge loop has
\* ended; it has written it once when persist was requested and not at all
\* otherwise; what it wrote is the Vocabulary it returns; and the only step of a
\* call that changes the store is the one after the loop, with persist requested.
C12_PersistOnce ==
  /\ [](InTrainBody => writes = 0)
  /\ [](pc = "done" => writes = (IF save THEN 1 ELSE 0))
  /\ [](pc = "done" /\ save => store = [exists |-> TRUE, content |-> model])
  /\ [][InTrainBody /\ store' # store => pc = "save" /\ save /\ pc' = "done"]_vars

\* C12 witness: a call with persist requested merged once and then wrote the
\* grown Vocabulary over a store that held something else
C12_Witness ==
  /\ pc = "done"
  /\ save
  /\ writes = 1
  /\ Len(assigned) = 1
  /\ store.content = model
  /\ model # modelBefore
  /\ trained

\* the pairs the token at 0-based position left of toks forms with the token
\* before it and with the token after it
NeighbourPairs(toks, left) ==
  (IF left > 0 THEN <<toks[left] \o toks[left + 1]>> ELSE <<>>)
    \o (IF left + 1 < Len(toks) THEN <<toks[left + 1] \o toks[left + 2]>> ELSE <<>>)

\* the entries of heap h whose pair is p
WithPair(h, p) == Cardinality({n \in 1..Len(h) : h[n][2] = p})

\* a rescan iteration that fused
FusingStep == pc = "scan" /\ pc' = "scan" /\ j' = j + 1 /\ Len(tokens') < Len(tokens)

\* C13: in a rescan iteration that fuses two tokens, the counts incremented and
\* the entries pushed are those of the pairs the fused token forms with the
\* tokens next to it in the token sequence after the fusion, one fresh entry per
\* push; every entry the queue held is still there.
C13_NeighbourPairs ==
  [][FusingStep =>
       LET expected == NeighbourPairs(tokens', tokenPairs[j + 1][1])
           pairs == {pairFreqs'[n][1] : n \in 1..Len(pairFreqs')}
                      \cup {expected[n] : n \in 1..Len(expected)}
       IN /\ \A p \in pairs :
               /\ PfGet(pairFreqs', p) = PfGet(pairFreqs, p) + Count(expected, p)
               /\ WithPair(heap', p) = WithPair(heap, p) + Count(expected, p)
          /\ Len(heap') = Len(heap) + Len(expected)
          /\ \A n \in 1..Len(heap) : Count(heap', heap[n]) >= Count(heap, heap[n])]_vars

\* tp lists each adjacent position <<p, p + 1>> of toks once and nothing else
AdjacentPositions(tp, toks) ==
  /\ \A n \in 1..Len(tp) :
       /\ tp[n][1] >= 0
       /\ tp[n][2] = tp[n][1] + 1
       /\ tp[n][2] < Len(toks)
  /\ \A p \in 0..(Len(toks) - 2) : Count(tp, <<p, p + 1>>) = 1

\* C14: when an iteration of the merge loop begins, tokenPairs lists every
\* adjacent position [p, p + 1] of the current token sequence exactly once and
\* holds nothing else.
C14_PairsAdjacent ==
  pc = "loop" /\ i < k => AdjacentPositions(tokenPairs, tokens)

\* every entry's priority is at most its parent's, the parent of the entry at
\* 0-based index n being at (n - 1) \div 2
HeapOrdered(h) ==
  \A n \in 1..(Len(h) - 1) : h[((n - 1) \div 2) + 1][1] >= h[n + 1][1]

\* the priority p is at least that of every entry of h
AtLeastAll(p, h) == \A n \in 1..Len(h) : p >= h[n][1]

\* C15: whatever the order of the insert and extractMax calls, free-standing or
\* made by the training loop, the heap array keeps every parent's priority at
\* least its children's, and the entry an extractMax call returns has a
\* priority at least that of every entry left.
C15_HeapInvariant ==
  /\ HeapOrdered(heap)
  /\ (pc \in {"extracted", "reextracted"} => AtLeastAll(extracted[1][1], heap))
  /\ (pc = "popped" => AtLeastAll(negFreq, heap))

\* C15 witness: an extractMax call that came after inserts that came after an
\* earlier extractMax call returned the top and left three ordered entries
\* whose last one is not the smallest
C15_Witness ==
  /\ pc = "reextracted"
  /\ Len(heap) = 3
  /\ extracted[1][1] > heap[1][1]
  /\ heap[3][1] > heap[2][1]

\* C16: extractMax on an empty heap raises the error and the heap is still
\* empty; no train call, whatever its corpus and k, is ended by that error.
C16_NoEmptyExtract ==
  /\ pc # "failed"
  /\ (pc = "heapError" => isEmpty(heap))

\* C16 witness: a heap that was filled and drained, then asked once more
C16_Witness ==
  /\ pc = "heapError"
  /\ isEmpty(heap)
  /\ extracted # <<>>

\* C17: at every point of a train call, whatever k, the call has assigned at
\* most one id, the Vocabulary holds at most one token it did not hold at
\* entry, and the trie at most one entry it did not hold at entry.
C17_AtMostOneMerge ==
  pc # "idle" =>
    /\ Len(assigned) <= 1
    /\ Cardinality(DOMAIN model \ DOMAIN modelBefore) <= 1
    /\ Cardinality(TrieWords(trie) \ TrieWords(trieBefore)) <= 1

\* C17 witness: a call with k = 2 has ended after one merge, its second pop
\* having frequency 1, while a pair counted more than once is still queued
C17_Witness ==
  /\ pc = "done"
  /\ k >= 2
  /\ i = 1
  /\ freq = 1
  /\ Len(assigned) = 1
  /\ Cardinality(DOMAIN model \ DOMAIN modelBefore) = 1
  /\ \E n \in 1..Len(heap) : heap[n][1] <= -2

\* C18: after construction and at every point of every later call, the texts
\* at which the trie has a complete-token terminus are the keys of the
\* Vocabulary, and the value at each terminus is the id the Vocabulary holds.
C18_TrieMatchesVocabulary ==
  /\ TrieWords(trie) = DOMAIN model
  /\ \A t \in DOMAIN model : trie[t].value = model[t]

\* C18 witness: a token loaded from the store was given another id by a train
\* call, and its terminus holds that id
C18_Witness ==
  /\ trained
  /\ pc = "idle"
  /\ \E t \in DOMAIN SeedVocabulary :
       /\ t \in DOMAIN model
       /\ model[t] # SeedVocabulary[t]
       /\ trie[t].isEndOfWord
       /\ trie[t].value = model[t]

NotSentinel(c) == c # Sentinel

\* C19: from the end of preprocessing to the return of a train call, after
\* every fusion of every rescan, the texts of the token sequence joined in
\* order are the corpus without its '%' characters.
C19_TextPreserved ==
  pc \in {"loop", "popped", "scan", "save", "done"} =>
    Concat(tokens) = SelectSeq(corpus, NotSentinel)

\* C19 witness: corpus "a%aaa" in the middle of a rescan that has fused twice
C19_Witness ==
  /\ pc = "scan"
  /\ fusions = 2
  /\ corpus = <<"a", "%", "a", "a", "a">>
  /\ tokens = <<aa, aa>>

====
